---------------------------- MODULE Spec2Model ----------------------------
(***************************************************************************)
(* DollarDex log indexer (scripts/indexer.mjs): the upstream log client,   *)
(* the adaptive range scanner, the SQLite store (meta + logs) and the sync *)
(* orchestrator, as one state machine.  One process runs at a time; its    *)
(* steps are the stretches of code between two suspension points (await    *)
(* fetch, await sleep).  The store survives a crash, the locals do not.    *)
(***************************************************************************)
EXTENDS Integers, Sequences, FiniteSets, TLC

VARIABLES
    meta,     \* meta table: a function with domain {} or {"last_block"}
    logs,     \* logs table: a set of rows
    env,      \* process.env and argv of the running process
    pc,       \* the suspension point the process is parked at
    phase,    \* the call site of syncOnce that is running: "once" | "watch"
    sync,     \* syncOnce locals: head, last, from, start, end
    scan,     \* indexRangeAdaptive: fromBlock, toBlock, step, start, totalInserted
    fetch,    \* fetchJson: the request (kind, fromBlock, toBlock) and attempt
    policy,   \* how the upstream and the disk behave in this run
    cache,    \* api.mjs, the cache of the query server: key -> the rows
              \* served (value) and whether now - ts < CACHE_MS (fresh)
    obs       \* observations of the run (history, read by the properties only)

vars == <<meta, logs, env, pc, phase, sync, scan, fetch, policy, cache, obs>>

Max(a, b) == IF a >= b THEN a ELSE b
Min(a, b) == IF a <= b THEN a ELSE b

(***************************************************************************)
(* Configuration                                                           *)
(***************************************************************************)
\* fetchJson(u, { retries = 8 } = {})
retries == 8
\* Math.max(50, Number(process.env.CHUNK || "2000"))
CHUNK_FLOOR == 50
CHUNK_DEFAULT == 2000
\* Math.max(10, Number(process.env.MIN_CHUNK || "200"))
MIN_CHUNK_FLOOR == 10
MIN_CHUNK_DEFAULT == 200
\* Math.max(0, Number(process.env.OVERLAP || "5"))
OVERLAP_DEFAULT == 5

\* Number(process.env.X || "default"): an unset variable is modelled as -1.
EnvOr(v, default) == IF v = -1 THEN default ELSE v

StartBlockOf(e) == EnvOr(e.START_BLOCK, 0)
START_BLOCK == StartBlockOf(env)
CHUNK_MAX == Max(CHUNK_FLOOR, EnvOr(env.CHUNK, CHUNK_DEFAULT))
MIN_CHUNK == Max(MIN_CHUNK_FLOOR, EnvOr(env.MIN_CHUNK, MIN_CHUNK_DEFAULT))
OVERLAP == Max(0, EnvOr(env.OVERLAP, OVERLAP_DEFAULT))

Once(e) == "--once" \in e.args
Watch(e) == "--watch" \in e.args
ExportJson(e) == "--export-json" \in e.args
ONCE == Once(env)
WATCH == Watch(env)
EXPORT_JSON == ExportJson(env)

(***************************************************************************)
(* Texts are sequences of words; a phrase is found in a text when its      *)
(* words occur in it, in order and adjacent, after lower-casing.           *)
(***************************************************************************)
LowerWord(w) ==
    CASE w = "NOTOK" -> "notok"
      [] w = "No" -> "no"
      [] w = "Max" -> "max"
      [] w = "OK" -> "ok"
      [] w = "Please" -> "please"
      [] w = "Error!" -> "error!"
      [] OTHER -> w

toLowerCase(t) == [i \in 1..Len(t) |-> LowerWord(t[i])]

includes(t, p) ==
    \E i \in 1..(Len(t) - Len(p) + 1) : SubSeq(t, i, i + Len(p) - 1) = p

\* JavaScript values of the response body: t is the type tag, s the text of
\* a string, n the number a "0x..." string denotes, a the items of an array.
Undef == [t |-> "undefined", s |-> <<>>, n |-> 0, a |-> <<>>]
JNull == [t |-> "null", s |-> <<>>, n |-> 0, a |-> <<>>]
JStr(text) == [t |-> "string", s |-> text, n |-> 0, a |-> <<>>]
JHex(k) == [t |-> "string", s |-> <<"0x">>, n |-> k, a |-> <<>>]
JArr(items) == [t |-> "array", s |-> <<>>, n |-> 0, a |-> items]
JObj == [t |-> "object", s |-> <<>>, n |-> 0, a |-> <<>>]

\* Truthiness: undefined, null and "" are falsy; arrays and objects are truthy.
Truthy(v) == \/ v.t \in {"array", "object"}
             \/ v.t = "string" /\ v.s # <<>>

\* String(v || ""): the text a value is searched in.  An array or an object
\* prints as "" or "[object Object]", which carries none of the phrases.
StringOr(v) == IF v.t = "string" THEN v.s ELSE <<>>

isBscScanRateLimitText(v) ==
    LET t == toLowerCase(StringOr(v))
    IN  \/ includes(t, <<"rate", "limit">>)
        \/ includes(t, <<"max", "rate", "limit">>)
        \/ includes(t, <<"please", "try", "again", "later">>)

\* A response: res.ok, whether JSON.parse(text) succeeded, and the parsed body.
Body(status, message, result) ==
    [status |-> status, message |-> message, result |-> result]
Response(kind, ok, parsed, j) ==
    [kind |-> kind, ok |-> ok, parsed |-> parsed, j |-> j]
NoBody == Body(Undef, Undef, Undef)

\* j?.status, j?.message, j?.result: undefined when j is null.
Field(r, f) == IF r.parsed THEN r.j[f] ELSE Undef

\* fetchJson, one attempt: "return" (return j) or the error thrown.
FetchJsonAttempt(r) ==
    LET status == Field(r, "status")
        message == Field(r, "message")
        result == Field(r, "result")
    IN  IF ~r.ok THEN "HTTP"
        ELSE IF status = JStr(<<"0">>)
                /\ isBscScanRateLimitText(IF Truthy(result) THEN result ELSE message)
        THEN "BSCSCAN_RATE_LIMIT"
        ELSE IF status = JStr(<<"0">>)
                /\ includes(toLowerCase(StringOr(message)), <<"notok">>)
                /\ isBscScanRateLimitText(result)
        THEN "BSCSCAN_RATE_LIMIT"
        ELSE "return"

\* a getLogsFromBscScan that throws on every status "0"
StatusZeroThrows(r) ==
    IF Field(r, "status") = JStr(<<"0">>) THEN [thrown |-> TRUE, arr |-> <<>>]
    ELSE [thrown |-> FALSE,
          arr |-> IF Field(r, "result").t = "array" THEN Field(r, "result").a
                  ELSE <<>>]

\* getLogsFromBscScan after fetchJson returned j: [thrown, arr].
GetLogsResult(r) ==
    LET status == Field(r, "status")
        msg == toLowerCase(StringOr(Field(r, "message")))
        res == Field(r, "result")
    IN  IF status = JStr(<<"0">>)
        THEN IF includes(msg, <<"no", "records">>)
             THEN [thrown |-> FALSE, arr |-> <<>>]
             ELSE IF isBscScanRateLimitText(res)
             THEN [thrown |-> TRUE, arr |-> <<>>]
             ELSE IF res.t = "string" /\ res.s # <<>>
             THEN [thrown |-> TRUE, arr |-> <<>>]
             ELSE [thrown |-> FALSE, arr |-> <<>>]
        ELSE [thrown |-> FALSE,
              arr |-> IF res.t = "array" THEN res.a ELSE <<>>]

\* a getHeadBlockNumber that takes a missing or invalid result for block 0
HeadDefaultsToZero(r) ==
    LET hex == Field(r, "result")
    IN  IF ~Truthy(hex) \/ hex.t # "string" \/ hex.s # <<"0x">>
        THEN [thrown |-> FALSE, head |-> 0]
        ELSE [thrown |-> FALSE, head |-> hex.n]

\* getHeadBlockNumber after fetchJson returned j: [thrown, head].
GetHeadResult(r) ==
    LET hex == Field(r, "result")
    IN  IF ~Truthy(hex) \/ hex.t # "string" \/ hex.s # <<"0x">>
        THEN [thrown |-> TRUE, head |-> 0]
        ELSE [thrown |-> FALSE, head |-> hex.n]

(***************************************************************************)
(* Raw logs, rows and the logs table                                       *)
(***************************************************************************)
\* A numeric field of a raw log: a "0x..." string (hex), a decimal string or
\* number (dec), or absent (none); val is the number it denotes.
Hex(k) == [enc |-> "hex", val |-> k]
Dec(k) == [enc |-> "dec", val |-> k]
Absent == [enc |-> "none", val |-> 0]

\* The decimal digits of k read as hexadecimal digits.
RECURSIVE DigitsAsHex(_)
DigitsAsHex(k) == IF k < 10 THEN k ELSE DigitsAsHex(k \div 10) * 16 + (k % 10)

\* parseInt(String(x || "0"), 16)
parseInt16(x) ==
    CASE x.enc = "hex" -> x.val
      [] x.enc = "dec" -> DigitsAsHex(x.val)
      [] OTHER -> 0

\* Number(x): of a "0x..." string, a decimal string or number; 0 stands for NaN
\* where the caller goes on with "|| 0".
NumberOf(x) == IF x.enc = "none" THEN 0 ELSE x.val

\* SQL NULL and JavaScript null in a row
NULL == "NULL"

\* The events of the ABI: topic0 -> [name, payload the event's arguments need].
AbiTopics == {"0xdeposit"}
AbiName(topic0) == "Deposit"
AbiPayload(topic0) == "0x01"

\* a decodeLog without its try/catch: the error of parseLog leaves it
DecodeUncaught(topics, data) ==
    IF topics # <<>> /\ topics[1] \in AbiTopics /\ data = AbiPayload(topics[1])
    THEN [eventName |-> AbiName(topics[1]), decodedJson |-> "{amount:1}"]
    ELSE [eventName |-> "TypeError", decodedJson |-> "TypeError"]

\* a decodeLog that takes the name before it reads the arguments and keeps it
\* when reading them fails
DecodeKeepsName(topics, data) ==
    IF topics # <<>> /\ topics[1] \in AbiTopics
    THEN [eventName |-> AbiName(topics[1]),
          decodedJson |-> IF data = AbiPayload(topics[1])
                          THEN "{amount:1}" ELSE NULL]
    ELSE [eventName |-> NULL, decodedJson |-> NULL]

\* decodeLog: parseLog finds no fragment for topic0 (parsed is null and
\* parsed.args throws) or cannot decode data: both end in the catch.
decodeLog(topics, data) ==
    IF topics # <<>> /\ topics[1] \in AbiTopics /\ data = AbiPayload(topics[1])
    THEN [eventName |-> AbiName(topics[1]), decodedJson |-> "{amount:1}"]
    ELSE [eventName |-> NULL, decodedJson |-> NULL]

\* indexRange, the body of "for (const lg of raw)": one raw log to one row.
RowOf(lg) ==
    LET blockNumber == IF parseInt16(lg.blockNumber) # 0
                       THEN parseInt16(lg.blockNumber)
                       ELSE NumberOf(lg.blockNumber)
        logIndex == parseInt16(lg.logIndex)
        txIndex == IF parseInt16(lg.transactionIndex) # 0
                   THEN parseInt16(lg.transactionIndex) ELSE -1
        ts == IF lg.timeStamp.enc = "none" THEN -1 ELSE lg.timeStamp.val
        decoded == decodeLog(lg.topics, lg.data)
    IN  [block_number |-> blockNumber,
         tx_hash |-> lg.transactionHash,
         tx_index |-> txIndex,
         log_index |-> logIndex,
         event_name |-> decoded.eventName,
         topic0 |-> IF lg.topics # <<>> THEN lg.topics[1] ELSE NULL,
         topics_json |-> lg.topics,
         data |-> lg.data,
         decoded_json |-> decoded.decodedJson,
         timestamp |-> ts]

\* PRIMARY KEY (tx_hash, log_index)
KeyOf(row) == <<row.tx_hash, row.log_index>>
Keys(table) == {KeyOf(x) : x \in table}

\* an insert that keeps both rows of a key
InsertAlways(table, r) == table \cup {r}

\* INSERT OR REPLACE: the last write wins
InsertOrReplace(table, r) == {x \in table : KeyOf(x) # KeyOf(r)} \cup {r}

\* insertLogStmt.run(r): INSERT OR IGNORE
insertLogStmt(table, r) ==
    IF KeyOf(r) \in Keys(table) THEN table ELSE table \cup {r}

\* insertMany(rows): the statement run for each row, in order, in one transaction
RECURSIVE insertMany(_, _)
insertMany(table, rows) ==
    IF rows = <<>> THEN table
    ELSE insertMany(insertLogStmt(table, Head(rows)), Tail(rows))

\* a loop outside any transaction: the rows run before row k stay
PartialBatchKept(table, rows, k) == insertMany(table, SubSeq(rows, 1, k - 1))

\* db.transaction(...) when the function does not reach its end at row k (the
\* statement throws: ROLLBACK; the process dies: the transaction was never
\* committed): the table is as before the call
TransactionInterrupted(table, rows, k) == table

\* indexRange: rows.push(...) for every raw log
\* an indexRange that skips the logs it cannot decode
RowsDecodedOnly(raw) ==
    SelectSeq([i \in 1..Len(raw) |-> RowOf(raw[i])],
              LAMBDA r : r.event_name # NULL)

Rows(raw) == [i \in 1..Len(raw) |-> RowOf(raw[i])]

(***************************************************************************)
(* Reading the logs table: the export and the query server                 *)
(***************************************************************************)
\* The collation order of the transaction hashes in use
TxRank(h) == CASE h = "0xa" -> 1 [] h = "0xb" -> 2 [] h = "0xc" -> 3 [] OTHER -> 4

\* .all(): the rows of a result set, each once, in some order
AllRows(S) ==
    {q \in [1..Cardinality(S) -> S] :
        \A i \in DOMAIN q : \A j \in DOMAIN q : i # j => q[i] # q[j]}

\* LIMIT n
Limit(q, n) == SubSeq(q, 1, Min(n, Len(q)))

\* exportJson: ORDER BY block_number ASC, tx_hash ASC, log_index ASC
ExportBefore(x, y) ==
    \/ x.block_number < y.block_number
    \/ x.block_number = y.block_number /\ TxRank(x.tx_hash) < TxRank(y.tx_hash)
    \/ x.block_number = y.block_number /\ x.tx_hash = y.tx_hash
          /\ x.log_index < y.log_index

\* exportJson: .map((r) => ({...})), decoded is the parsed decoded_json or null
ExportItem(r) ==
    [block_number |-> r.block_number, tx_hash |-> r.tx_hash,
     log_index |-> r.log_index, event_name |-> r.event_name,
     timestamp |-> r.timestamp, decoded |-> r.decoded_json]

\* exportJson: the documents it may write for a table
ExportDocuments(table) ==
    {[i \in DOMAIN q |-> ExportItem(q[i])] :
        q \in {p \in AllRows(table) :
                  \A i \in DOMAIN p : \A j \in DOMAIN p :
                      i < j => ~ExportBefore(p[j], p[i])}}

\* an ORDER BY on the block number alone
LatestByBlockOnly(x, y) == x.block_number > y.block_number

\* api.mjs: ORDER BY block_number DESC, log_index DESC
LatestBefore(x, y) ==
    \/ x.block_number > y.block_number
    \/ x.block_number = y.block_number /\ x.log_index > y.log_index

\* api.mjs, qEventsByName.all(name, limit) and qLatestDeposits.all(limit):
\* WHERE event_name = ? ORDER BY ... LIMIT ?; rows the ORDER BY does not tell
\* apart come in either order
SelectLatest(table, name, limit) ==
    {Limit(q, limit) :
        q \in {p \in AllRows({x \in table : x.event_name = name}) :
                  \A i \in DOMAIN p : \A j \in DOMAIN p :
                      i < j => ~LatestBefore(p[j], p[i])}}

(***************************************************************************)
(* The query server (scripts/api.mjs)                                      *)
(***************************************************************************)
\* const CACHE_MS = Math.max(0, Number(process.env.CACHE_MS || "5000"))
CACHE_MS == 5000

\* A query parameter: absent, a number, or a text that is not a number.
NoParam == [t |-> "none", n |-> 0]
Num(n) == [t |-> "num", n |-> n]
Text == [t |-> "text", n |-> 0]

\* req.method, u.pathname, u.query.name, u.query.limit
Request(method, pathname, name, limit) ==
    [method |-> method, pathname |-> pathname, name |-> name, limit |-> limit]

\* clampInt(v, def, min, max): Number(v) not finite gives def
clampInt(v, def, min, max) ==
    IF v.t # "num" THEN def ELSE Max(min, Min(max, v.n))

\* /api/deposits: r.map((x) => ({ event: "Deposit", ... ts: x.timestamp || 0 }))
DepositItem(x) ==
    [event |-> "Deposit", blockNumber |-> x.block_number, tx |-> x.tx_hash,
     logIndex |-> x.log_index, ts |-> IF x.timestamp = -1 THEN 0 ELSE x.timestamp,
     decoded |-> x.decoded_json]

\* /api/events: r.map((x) => ({ event: x.event_name, ... }))
EventItem(x) ==
    [event |-> x.event_name, blockNumber |-> x.block_number, tx |-> x.tx_hash,
     logIndex |-> x.log_index, ts |-> IF x.timestamp = -1 THEN 0 ELSE x.timestamp,
     decoded |-> x.decoded_json]

CacheKey(pathname, name, limit) ==
    [pathname |-> pathname, name |-> name, limit |-> limit]

Answer(code, rows, ca, hit) ==
    [code |-> code, rows |-> rows, cache |-> ca, hit |-> hit]

\* cache.set(key, { ts: now, value: val })
CacheSet(ca, key, v) ==
    [k \in DOMAIN ca \cup {key} |->
        IF k = key THEN [value |-> v, fresh |-> CACHE_MS > 0] ELSE ca[k]]

\* a cache whose entries are served whatever their age
CachedForever(ca, key, values) ==
    IF key \in DOMAIN ca
    THEN {Answer(200, ca[key].value, ca, TRUE)}
    ELSE {Answer(200, v, CacheSet(ca, key, v), FALSE) : v \in values}

\* cached(key, fn): the value kept for the key while it is younger than
\* CACHE_MS, else fn() and the value is kept; values are what fn may return
cached(ca, key, values) ==
    IF key \in DOMAIN ca /\ ca[key].fresh
    THEN {Answer(200, ca[key].value, ca, TRUE)}
    ELSE {Answer(200, v, CacheSet(ca, key, v), FALSE) : v \in values}

\* http.createServer((req, res) => ...): the answers to a request
handler(table, ca, req) ==
    IF req.method = "OPTIONS" THEN {Answer(204, <<>>, ca, FALSE)}
    ELSE IF req.method # "GET" THEN {Answer(405, <<>>, ca, FALSE)}
    ELSE IF req.pathname = "/api/health" THEN {Answer(200, <<>>, ca, FALSE)}
    ELSE IF req.pathname = "/api/deposits"
    THEN LET limit == clampInt(req.limit, 18, 1, 200)
         IN  cached(ca, CacheKey("/api/deposits", "Deposit", limit),
                    {[i \in DOMAIN q |-> DepositItem(q[i])] :
                        q \in SelectLatest(table, "Deposit", limit)})
    ELSE IF req.pathname = "/api/events"
    THEN IF req.name = "" THEN {Answer(400, <<>>, ca, FALSE)}
         ELSE LET limit == clampInt(req.limit, 100, 1, 500)
              IN  cached(ca, CacheKey("/api/events", req.name, limit),
                         {[i \in DOMAIN q |-> EventItem(q[i])] :
                             q \in SelectLatest(table, req.name, limit)})
    ELSE {Answer(404, <<>>, ca, FALSE)}

(***************************************************************************)
(* The upstream: the logs the chain holds for the contract, and the        *)
(* responses the explorer API gives to a request                           *)
(***************************************************************************)
\* Longest result array the upstream delivers for a window
MaxDeliver == 2
\* Consecutive failures of one window that are counted
StreakCap == 6

RawLog(tx, li, bn, ti, ts, topics, data) ==
    [transactionHash |-> tx, logIndex |-> li, blockNumber |-> bn,
     transactionIndex |-> ti, timeStamp |-> ts, topics |-> topics, data |-> data]

BlockOf(lg) == lg.blockNumber.val
RawKey(lg) == <<lg.transactionHash, lg.logIndex.val>>

\* timeStamp is best-effort: the same log comes with or without it.
Variants(lg) == {lg, [lg EXCEPT !.timeStamp = Absent]}

InWindow(fromBlock, toBlock) ==
    {lg \in policy.chain : fromBlock <= BlockOf(lg) /\ BlockOf(lg) <= toBlock}

\* The result arrays of a successful getLogs: every log of the window at
\* least once, in any order, possibly repeated.
Deliveries(fromBlock, toBlock) ==
    LET held == InWindow(fromBlock, toBlock)
        items == UNION {Variants(lg) : lg \in held}
        n == Cardinality(held)
    IN  {a \in UNION {[1..k -> items] : k \in n..Max(n, MaxDeliver)} :
            \A lg \in held : \E i \in DOMAIN a : RawKey(a[i]) = RawKey(lg)}

Zero == JStr(<<"0">>)
One == JStr(<<"1">>)
LogsOk(arr) == Response("logs", TRUE, TRUE, Body(One, JStr(<<"OK">>), JArr(arr)))
NoRecords ==
    Response("no_records", TRUE, TRUE,
             Body(Zero, JStr(<<"No", "records", "found">>), JArr(<<>>)))
RateLimited ==
    Response("rate_limit", TRUE, TRUE,
             Body(Zero, JStr(<<"NOTOK">>), JStr(<<"Max", "rate", "limit", "reached">>)))
ErrorString ==
    Response("error_string", TRUE, TRUE,
             Body(Zero, JStr(<<"NOTOK">>), JStr(<<"Error!", "Invalid", "block", "range">>)))
NotOkNull == Response("notok_null", TRUE, TRUE, Body(Zero, JStr(<<"NOTOK">>), JNull))
NotArray == Response("not_array", TRUE, TRUE, Body(One, JStr(<<"OK">>), JObj))
Unparseable == Response("unparseable", TRUE, FALSE, NoBody)
HttpError == Response("http_error", FALSE, FALSE, NoBody)
\* a non-2xx answer whose JSON body reports the rate limit
RateLimitedHttp ==
    Response("rate_limit_http", FALSE, TRUE,
             Body(Zero, JStr(<<"NOTOK">>), JStr(<<"Max", "rate", "limit", "reached">>)))
\* a 200 answer whose body is the plain text of a rate-limit notice, not JSON:
\* j holds the text as received
RateLimitedText ==
    Response("rate_limit_text", TRUE, FALSE,
             JStr(<<"Please", "try", "again", "later">>))
HeadOk(h) == Response("head", TRUE, TRUE, Body(Undef, Undef, JHex(h)))
HeadInvalid == Response("head_invalid", TRUE, TRUE, Body(Undef, Undef, JStr(<<"error">>)))

FaultyLogs ==
    {RateLimited, ErrorString, NotOkNull, NotArray, Unparseable, HttpError,
     RateLimitedHttp, RateLimitedText}
FaultyHead ==
    {RateLimited, HeadInvalid, Unparseable, HttpError, RateLimitedHttp,
     RateLimitedText}

WindowSize(fe) == fe.toBlock - fe.fromBlock + 1

\* What the upstream may answer to the request fetchJson has in flight.
UpstreamResponses(fe) ==
    IF fe.kind = "head"
    THEN {HeadOk(h) : h \in policy.heads}
            \cup (IF policy.faults THEN FaultyHead ELSE {})
    ELSE IF policy.threshold > 0 /\ WindowSize(fe) > policy.threshold
    THEN {RateLimited}
    ELSE (IF InWindow(fe.fromBlock, fe.toBlock) = {}
          THEN {NoRecords}
          ELSE {LogsOk(a) : a \in Deliveries(fe.fromBlock, fe.toBlock)})
            \cup (IF policy.faults THEN FaultyLogs ELSE {})

(***************************************************************************)
(* Store access and the arithmetic of the scanner and the orchestrator     *)
(***************************************************************************)
\* setMeta(key, value): INSERT ... ON CONFLICT(key) DO UPDATE
setMeta(me, key, value) ==
    [k \in DOMAIN me \cup {key} |-> IF k = key THEN value ELSE me[k]]

\* Number(getMeta("last_block") || START_BLOCK)
LastBlock(me) ==
    IF "last_block" \in DOMAIN me THEN me["last_block"] ELSE START_BLOCK

\* a start-up that writes the configured start block over the checkpoint
SeedAlways(me, e) == setMeta(me, "last_block", StartBlockOf(e))

\* if (getMeta("last_block") == null) setMeta("last_block", String(START_BLOCK))
SeedMeta(me, e) ==
    IF "last_block" \in DOMAIN me THEN me
    ELSE setMeta(me, "last_block", StartBlockOf(e))

\* a pass that starts at the checkpoint itself
PassFromCheckpoint(l) == l

\* const from = Math.max(0, last - OVERLAP)
PassFrom(l) == Max(0, l - OVERLAP)

\* const end = Math.min(start + windowSize - 1, head)
OuterEnd(s, h) == Min(s + CHUNK_MAX - 1, h)

\* start += windowSize
NextOuterStart(s) == s + CHUNK_MAX

\* a checkpoint at the last block scanned
CheckpointAtEnd(e) == e

\* a checkpoint one block too far
CheckpointTooFar(e) == e + 2

\* setMeta("last_block", String(end + 1))
CheckpointAfter(e) == e + 1

\* let step = Math.min(CHUNK_MAX, toBlock - fromBlock + 1)
InitialStep(fromBlock, toBlock) == Min(CHUNK_MAX, toBlock - fromBlock + 1)

\* const end = Math.min(start + step - 1, toBlock)
WindowEnd(s, st, toBlock) == Min(s + st - 1, toBlock)

\* a cursor that a successful window does not move
NextStartStays(s, e) == s

\* a cursor that steps over a block
NextStartSkips(s, e) == e + 2

\* start = end + 1
NextStart(s, e) == e + 1

\* a catch block that gives the window up
RetrySkips(s, e) == e + 1

\* the catch block leaves start as it is
RetryStart(s, e) == s

\* Math.random() * 800, rounded down: the least and the greatest
Jitters == {0, 799}

\* a cooldown that is the same at the minimum window
FlatCooldown(st, jitter) == 1000 + jitter

\* const extra = step <= MIN_CHUNK ? 2500 : 0;
\* await sleep(1000 + extra + Math.random() * 800), in ms
Cooldown(st, jitter) ==
    1000 + (IF st <= MIN_CHUNK THEN 2500 ELSE 0) + jitter

\* a window that never grows back
GrowNever(st) == st

\* if (step < CHUNK_MAX) step = Math.min(CHUNK_MAX, Math.floor(step * 1.35))
GrowStep(st) ==
    IF st < CHUNK_MAX THEN Min(CHUNK_MAX, (st * 135) \div 100) ELSE st

\* a catch block that doubles the window
FloorOnly(st) == Max(MIN_CHUNK, st * 2)

\* a shrink by one block
ShrinkByOne(st) == Max(MIN_CHUNK, st - 1)

\* step = Math.max(MIN_CHUNK, Math.floor(step / 2))
ShrinkStep(st) == Max(MIN_CHUNK, st \div 2)

(***************************************************************************)
(* Observations                                                            *)
(***************************************************************************)
NoRequest == Request("", "", "", NoParam)

NoObs ==
    [passFrom |-> 0, wrote |-> FALSE, covered |-> {}, overlapped |-> {},
     passCovered |-> {}, delivered |-> {}, failStreak |-> 0,
     event |-> "none", answer |-> "none", okSize |-> 0, offered |-> <<>>,
     tableAtCall |-> 0, exported |-> FALSE, document |-> <<>>,
     phrase |-> FALSE, head |-> -1, inflight |-> 0, running |-> 0,
     received |-> <<>>, request |-> NoRequest, code |-> 0, hit |-> FALSE,
     cooldown |-> 0]

Quiet(o) ==
    [o EXCEPT !.event = "none", !.answer = "none", !.okSize = 0, !.offered = <<>>,
              !.exported = FALSE, !.document = <<>>, !.phrase = FALSE,
              !.head = -1, !.received = <<>>, !.request = NoRequest,
              !.code = 0, !.hit = FALSE, !.cooldown = 0]

\* What a response is, by its own fields: a list of logs, an explicit "no
\* records found", or neither.
Shape(r) ==
    IF ~r.ok \/ ~r.parsed THEN "malformed"
    ELSE IF r.j.status = JStr(<<"1">>) /\ r.j.result.t = "array" THEN "logs"
    ELSE IF r.j.status = JStr(<<"0">>)
            /\ includes(toLowerCase(StringOr(r.j.message)), <<"no", "records">>)
    THEN "no_records"
    ELSE "malformed"

\* The text of a response body: of a JSON body its status, message and result
\* strings, of any other body the text itself.
BodyText(r) ==
    IF r.parsed THEN StringOr(r.j.status) \o StringOr(r.j.message) \o StringOr(r.j.result)
    ELSE IF r.j = NoBody THEN <<>>
    ELSE StringOr(r.j)

\* The body carries one of the rate-limit phrases.
CarriesPhrase(r) ==
    LET t == toLowerCase(BodyText(r))
    IN  \/ includes(t, <<"rate", "limit">>)
        \/ includes(t, <<"max", "rate", "limit">>)
        \/ includes(t, <<"please", "try", "again", "later">>)

\* What the answer to a head request is, by its body: a "0x..." string in
\* result, or not.
HeadShape(r) ==
    IF r.parsed /\ r.j.result.t = "string" /\ r.j.result.s = <<"0x">>
    THEN "hex" ELSE "invalid"

ObsWindowOk(o, fe, raw, kind) ==
    LET win == fe.fromBlock..fe.toBlock
    IN  [o EXCEPT !.covered = @ \cup win,
                  !.overlapped = @ \cup (o.covered \cap win),
                  !.passCovered = @ \cup win,
                  !.delivered = @ \cup {KeyOf(RowOf(raw[i])) : i \in DOMAIN raw},
                  !.failStreak = 0,
                  !.event = "window_ok",
                  !.answer = kind,
                  !.okSize = WindowSize(fe)]

ObsWindowFailed(o, what) ==
    [o EXCEPT !.failStreak = Min(@ + 1, StreakCap), !.event = what,
              !.okSize = 0]

(***************************************************************************)
(* Control flow.  A configuration c is the state of the process and of the *)
(* store; each operator below runs the code from one point to the next     *)
(* suspension point and gives the configurations it can end in.            *)
(***************************************************************************)
NoSync == [head |-> 0, last |-> 0, from |-> 0, start |-> 0, end |-> 0]
NoScan == [fromBlock |-> 0, toBlock |-> 0, step |-> 0, start |-> 0,
           totalInserted |-> 0]
NoFetch == [kind |-> "none", fromBlock |-> 0, toBlock |-> 0, attempt |-> 0]

Cur ==
    [pc |-> pc, phase |-> phase, sync |-> sync, scan |-> scan, fetch |-> fetch,
     meta |-> meta, logs |-> logs, obs |-> obs]

\* The process is gone: normal exit, unhandled rejection or kill.
Down(c) ==
    [c EXCEPT !.pc = "down", !.phase = "none", !.sync = NoSync, !.scan = NoScan,
              !.fetch = NoFetch,
              !.obs = [c.obs EXCEPT !.inflight = 0, !.running = 0]]

\* await sleep(WATCH_INTERVAL) in the watch loop
WatchSleep(c) ==
    [c EXCEPT !.pc = "watch_sleep", !.phase = "watch", !.sync = NoSync,
              !.scan = NoScan, !.fetch = NoFetch]

\* syncOnce() is called: getHeadBlockNumber calls fetchJson, which awaits fetch.
EnterSyncOnce(c, ph) ==
    {[c EXCEPT !.pc = "fetch", !.phase = ph, !.sync = NoSync, !.scan = NoScan,
               !.fetch = [kind |-> "head", fromBlock |-> 0, toBlock |-> 0,
                          attempt |-> 0],
               !.obs = [NoObs EXCEPT !.event = "pass_start",
                                     !.inflight = Min(c.obs.inflight + 1, 2),
                                     !.running = Min(c.obs.running + 1, 2)]]}

\* an export that empties the table it has written out
ExportDrains(c) ==
    {[c EXCEPT !.logs = {},
               !.obs = [c.obs EXCEPT !.exported = TRUE, !.document = d]] :
        d \in ExportDocuments(c.logs)}

\* exportJson(EXPORT_PATH): SELECT ... FROM logs, then writeFileSync
exportJson(c) ==
    {[c EXCEPT !.obs = [c.obs EXCEPT !.exported = TRUE, !.document = d]] :
        d \in ExportDocuments(c.logs)}

\* main from "if (WATCH)" on, for the flags of e: the watch loop never ends;
\* without it the export runs if asked for, and main returns
AfterOnce(c, e) ==
    IF Watch(e) THEN EnterSyncOnce(c, "watch")
    ELSE IF ExportJson(e) THEN {Down(x) : x \in exportJson(c)}
    ELSE {Down(c)}

\* main after "await syncOnce()" resolved
SyncOnceReturned(c) ==
    LET done == [c EXCEPT !.obs = [c.obs EXCEPT !.event = "pass_done",
                                                !.running = @ - 1]]
    IN  IF c.phase = "once" THEN AfterOnce(done, env) ELSE {WatchSleep(done)}

\* a watch loop without its try/catch
PassErrorKills(c) == {Down(c)}

\* main after "await syncOnce()" rejected: caught in the watch loop only
SyncOnceThrew(c) ==
    IF c.phase = "once" THEN {Down(c)}
    ELSE {WatchSleep([c EXCEPT !.obs = [c.obs EXCEPT !.running = @ - 1]])}

\* syncOnce after indexRangeAdaptive returned: setMeta, then await sleep(300)
ScanReturned(c) ==
    {[c EXCEPT !.pc = "ckpt_sleep", !.fetch = NoFetch,
               !.meta = setMeta(c.meta, "last_block", CheckpointAfter(c.sync.end)),
               !.obs = [c.obs EXCEPT !.wrote = TRUE]]}
    \cup (IF policy.faults
          THEN SyncOnceThrew([c EXCEPT !.obs = [c.obs EXCEPT !.event = "meta_failed"]])
          ELSE {})

\* indexRangeAdaptive: while (start <= toBlock) ... return totalInserted
ScanLoop(c) ==
    IF c.scan.start <= c.scan.toBlock
    THEN {[c EXCEPT !.pc = "pace",
                    !.fetch = [kind |-> "logs", fromBlock |-> c.scan.start,
                               toBlock |-> WindowEnd(c.scan.start, c.scan.step,
                                                     c.scan.toBlock),
                               attempt |-> 0]]}
    ELSE ScanReturned(c)

\* indexRangeAdaptive(fromBlock, toBlock), up to the first suspension
indexRangeAdaptive(c, fromBlock, toBlock) ==
    ScanLoop([c EXCEPT !.scan = [fromBlock |-> fromBlock, toBlock |-> toBlock,
                                 step |-> InitialStep(fromBlock, toBlock),
                                 start |-> fromBlock, totalInserted |-> 0],
                       !.obs = [c.obs EXCEPT !.covered = {}, !.overlapped = {},
                                             !.failStreak = 0,
                                             !.tableAtCall = Cardinality(c.logs)]])

\* syncOnce: for (let start = ...; start <= head; start += windowSize)
OuterLoop(c, s) ==
    IF s <= c.sync.head
    THEN indexRangeAdaptive(
             [c EXCEPT !.sync = [c.sync EXCEPT !.start = s,
                                              !.end = OuterEnd(s, c.sync.head)]],
             s, OuterEnd(s, c.sync.head))
    ELSE SyncOnceReturned(c)

\* an up-to-date pass that pulls the checkpoint back to the head
UpToDateResetsCheckpoint(c, h) ==
    LET l == LastBlock(c.meta)
        f == PassFrom(l)
        c1 == [c EXCEPT !.sync = [head |-> h, last |-> l, from |-> f,
                                  start |-> 0, end |-> 0],
                        !.obs = [c.obs EXCEPT !.passFrom = f, !.head = h]]
    IN  IF f > h
        THEN SyncOnceReturned([c1 EXCEPT !.meta = setMeta(c.meta, "last_block", h + 1)])
        ELSE OuterLoop(c1, f)

\* syncOnce after getHeadBlockNumber returned head
AfterHead(c, h) ==
    LET l == LastBlock(c.meta)
        f == PassFrom(l)
        c1 == [c EXCEPT !.sync = [head |-> h, last |-> l, from |-> f,
                                  start |-> 0, end |-> 0],
                        !.obs = [c.obs EXCEPT !.passFrom = f, !.head = h]]
    IN  IF f > h THEN SyncOnceReturned(c1) ELSE OuterLoop(c1, f)

\* indexRangeAdaptive, the try block after indexRange returned inserted
WindowSucceeded(c, inserted) ==
    ScanLoop([c EXCEPT !.scan = [c.scan EXCEPT
                  !.totalInserted = @ + inserted,
                  !.start = NextStart(c.scan.start, c.fetch.toBlock),
                  !.step = GrowStep(c.scan.step)]])

\* indexRangeAdaptive, the catch block: shrink, then await sleep
WindowFailed(c, what) ==
    {[c EXCEPT !.pc = "shrink_sleep", !.fetch = NoFetch,
               !.scan = [c.scan EXCEPT
                   !.start = RetryStart(c.scan.start, c.fetch.toBlock),
                   !.step = ShrinkStep(c.scan.step)],
               !.obs = [ObsWindowFailed(c.obs, what) EXCEPT
                   !.cooldown = Cooldown(ShrinkStep(c.scan.step), j)]] :
        j \in Jitters}

\* indexRange after getLogsFromBscScan returned raw: the insert may fail
indexRange(c, raw, kind) ==
    LET rows == Rows(raw)
        seen == [c EXCEPT !.obs = [ObsWindowOk(c.obs, c.fetch, raw, kind)
                                      EXCEPT !.offered = rows, !.received = raw]]
        cut(k) == [c EXCEPT !.logs = TransactionInterrupted(c.logs, rows, k),
                            !.obs = [c.obs EXCEPT !.offered = rows,
                                                  !.received = raw]]
    IN  IF raw = <<>> THEN WindowSucceeded(seen, 0)
        ELSE WindowSucceeded([seen EXCEPT !.logs = insertMany(c.logs, rows)],
                             Len(rows))
             \cup (IF policy.faults
                   THEN UNION {WindowFailed(cut(k), "insert_failed")
                                  \cup {Down([cut(k) EXCEPT !.obs.event = "crash"])} :
                               k \in 1..Len(rows)}
                   ELSE {})

\* a scanner without the try/catch: the failure leaves indexRangeAdaptive
FetchJsonPropagates(c) == SyncOnceThrew(c)

\* the caller of fetchJson after it threw
FetchJsonThrew(c) ==
    IF c.fetch.kind = "head"
    THEN SyncOnceThrew([c EXCEPT !.obs = [c.obs EXCEPT !.event = "head_failed"]])
    ELSE WindowFailed(c, "retries_exhausted")

\* the caller of fetchJson after it returned j
FetchJsonReturned(c, r) ==
    IF c.fetch.kind = "head"
    THEN IF GetHeadResult(r).thrown
         THEN SyncOnceThrew([c EXCEPT !.obs = [c.obs EXCEPT !.event = "head_invalid"]])
         ELSE AfterHead(c, GetHeadResult(r).head)
    ELSE IF GetLogsResult(r).thrown THEN WindowFailed(c, "upstream_error")
         ELSE indexRange(c, GetLogsResult(r).arr, Shape(r))

\* a fetchJson that never gives up
RetriesForever(c, r) ==
    IF FetchJsonAttempt(r) = "return" THEN FetchJsonReturned(c, r)
    ELSE {[c EXCEPT !.pc = "backoff", !.fetch.attempt = Min(@ + 1, retries)]}

\* fetchJson, one turn of for (;;) on the response r
AfterResponse(c, r) ==
    LET heard == [c EXCEPT !.obs = [c.obs EXCEPT
                      !.phrase = CarriesPhrase(r),
                      !.inflight = @ - 1,
                      !.answer = IF c.fetch.kind = "logs" THEN Shape(r)
                                 ELSE HeadShape(r)]]
    IN  IF FetchJsonAttempt(r) = "return" THEN FetchJsonReturned(heard, r)
        ELSE IF c.fetch.attempt + 1 > retries THEN FetchJsonThrew(heard)
        ELSE {[heard EXCEPT !.pc = "backoff", !.fetch.attempt = @ + 1]}

(***************************************************************************)
(* Runs                                                                    *)
(***************************************************************************)
Env(sb, chunk, minChunk, overlap, args) ==
    [START_BLOCK |-> sb, CHUNK |-> chunk, MIN_CHUNK |-> minChunk,
     OVERLAP |-> overlap, args |-> args]

LogA == RawLog("0xa", Hex(0), Hex(12), Hex(0), Hex(7), <<"0xdeposit">>, "0x01")
LogB == RawLog("0xb", Hex(1), Hex(55), Hex(2), Absent, <<"0xunknown">>, "0x")
LogC == RawLog("0xc", Hex(3), Hex(1234), Hex(1), Hex(9), <<"0xdeposit">>, "0x01")

\* A flaky upstream and disk: any response to any request, failing writes,
\* crashes; the head moves within the overlap from pass to pass.
FlakyRun ==
    [threshold |-> 0, heads |-> {57, 60}, chain |-> {LogA, LogB}, faults |-> TRUE,
     readers |-> {},
     envs |-> {Env(0, 50, 10, 5, {"--once"}), Env(0, 50, 10, 5, {"--watch"})}]

\* A large overlap: the pass starts more than one outer window below the
\* checkpoint.  The upstream and the disk are sound.
WideOverlapRun ==
    [threshold |-> 0, heads |-> {120}, chain |-> {LogA, LogB}, faults |-> FALSE,
     readers |-> {}, envs |-> {Env(100, 50, 10, 55, {"--once"})}]

\* An upstream that rate-limits every window of more than T blocks.
ThresholdRun(T) ==
    [threshold |-> T, heads |-> {59}, chain |-> {LogA, LogB}, faults |-> FALSE,
     readers |-> {}, envs |-> {Env(0, 50, 10, 0, {"--once"})}]

\* Range [1000, 1999], max window 500, rate limit above 200 blocks.
ScenarioRun ==
    [threshold |-> 200, heads |-> {1999}, chain |-> {LogC}, faults |-> FALSE,
     readers |-> {}, envs |-> {Env(1000, 500, -1, 0, {"--once"})}]

\* Passes, exports and queries of the query server in any order, on a sound
\* upstream and disk.
ReaderRun ==
    [threshold |-> 0, heads |-> {57}, chain |-> {LogA, LogB}, faults |-> FALSE,
     readers |-> {Request("GET", "/api/deposits", "", Num(2))},
     envs |-> {Env(0, 50, 10, 5, {"--once"}), Env(0, 50, 10, 5, {"--export-json"}),
               Env(0, 50, 10, 5, {"--once", "--export-json"})}]

\* An upstream whose reported head lags: a pass may find the head below the
\* checkpoint an earlier pass wrote.  The upstream and the disk are sound.
LaggingHeadRun ==
    [threshold |-> 0, heads |-> {40, 57}, chain |-> {LogA, LogB}, faults |-> FALSE,
     readers |-> {}, envs |-> {Env(0, 50, 10, 5, {"--once"})}]

\* Restarts under a start block that is reconfigured between runs.
ReseedRun ==
    [threshold |-> 0, heads |-> {57}, chain |-> {LogB}, faults |-> FALSE,
     readers |-> {},
     envs |-> {Env(-1, 50, 10, 5, {"--once"}), Env(30, 50, 10, 5, {"--once"})}]

\* A maximum window (CHUNK = 50) below the minimum window (MIN_CHUNK unset,
\* 200), under an upstream that rate-limits every window of more than 20
\* blocks.
SmallMaxRun ==
    [threshold |-> 20, heads |-> {59}, chain |-> {LogB}, faults |-> FALSE,
     readers |-> {}, envs |-> {Env(0, 50, -1, 0, {"--once"})}]

Thresholds == {5, 10, 20, 30}

Policies ==
    {FlakyRun, WideOverlapRun, ScenarioRun, ReaderRun, LaggingHeadRun, ReseedRun,
     SmallMaxRun}
        \cup {ThresholdRun(T) : T \in Thresholds}

Apply(c) ==
    /\ pc' = c.pc
    /\ phase' = c.phase
    /\ sync' = c.sync
    /\ scan' = c.scan
    /\ fetch' = c.fetch
    /\ meta' = c.meta
    /\ logs' = c.logs
    /\ obs' = c.obs

QuietCur == [Cur EXCEPT !.obs = Quiet(obs)]

Init ==
    /\ policy \in Policies
    /\ env \in policy.envs
    /\ meta = <<>>
    /\ logs = {}
    /\ pc = "down"
    /\ phase = "none"
    /\ sync = NoSync
    /\ scan = NoScan
    /\ fetch = NoFetch
    /\ cache = <<>>
    /\ obs = NoObs

\* node scripts/indexer.mjs ...: module top level, then main up to the first await
main(c, e) ==
    IF ~Watch(e) /\ ~Once(e) /\ ~ExportJson(e) THEN {Down(c)}
    ELSE IF Once(e) THEN EnterSyncOnce(c, "once")
    ELSE AfterOnce(c, e)

Start ==
    /\ pc = "down"
    /\ \E e \in policy.envs :
          /\ env' = e
          /\ \E c \in main([QuietCur EXCEPT !.meta = SeedMeta(meta, e)], e) : Apply(c)
    /\ UNCHANGED <<policy, cache>>

\* fetchJson: fetch(u, ...) is called, the request is in flight
Send(c) ==
    [c EXCEPT !.pc = "fetch",
              !.obs = [c.obs EXCEPT !.inflight = Min(@ + 1, 2)]]

\* the response to the request in flight arrives
FetchRespond ==
    /\ pc = "fetch"
    /\ \E r \in UpstreamResponses(fetch) : \E c \in AfterResponse(QuietCur, r) : Apply(c)
    /\ UNCHANGED <<env, policy, cache>>

\* getLogsFromBscScan: await sleep(260 + ...) is over, fetchJson sends the request
PaceDone ==
    /\ pc = "pace"
    /\ Apply(Send(QuietCur))
    /\ UNCHANGED <<env, policy, cache>>

\* fetchJson: await sleep(wait) is over, the next attempt is sent
BackoffDone ==
    /\ pc = "backoff"
    /\ Apply(Send(QuietCur))
    /\ UNCHANGED <<env, policy, cache>>

\* indexRangeAdaptive: the sleep of the catch block is over, the loop goes on
ShrinkSleepDone ==
    /\ pc = "shrink_sleep"
    /\ \E c \in ScanLoop(QuietCur) : Apply(c)
    /\ UNCHANGED <<env, policy, cache>>

\* syncOnce: await sleep(300) is over, the outer loop goes on
CkptSleepDone ==
    /\ pc = "ckpt_sleep"
    /\ \E c \in OuterLoop(QuietCur, NextOuterStart(sync.start)) : Apply(c)
    /\ UNCHANGED <<env, policy, cache>>

\* a timer that starts the next pass of the daemon while one is running
TimerOverlaps ==
    /\ phase = "watch"
    /\ pc \in {"watch_sleep", "fetch", "pace"}
    /\ \E c \in EnterSyncOnce(QuietCur, "watch") : Apply(c)
    /\ UNCHANGED <<env, policy, cache>>

\* main: await sleep(WATCH_INTERVAL) is over, the next pass starts
WatchSleepDone ==
    /\ pc = "watch_sleep"
    /\ \E c \in EnterSyncOnce(QuietCur, "watch") : Apply(c)
    /\ UNCHANGED <<env, policy, cache>>

\* the process is killed
Crash ==
    /\ pc # "down"
    /\ policy.faults
    /\ Apply(Down([QuietCur EXCEPT !.obs.event = "crash"]))
    /\ UNCHANGED <<env, policy, cache>>

\* api.mjs, the query server (another process, the database opened read-only)
\* handles one request
QueryStore ==
    /\ \E req \in policy.readers : \E a \in handler(logs, cache, req) :
          /\ cache' = a.cache
          /\ obs' = [Quiet(obs) EXCEPT !.event = "query", !.document = a.rows,
                                       !.request = req, !.code = a.code,
                                       !.hit = a.hit]
    /\ UNCHANGED <<meta, logs, env, pc, phase, sync, scan, fetch, policy>>

\* api.mjs: time passes, an entry of the cache is CACHE_MS old
CacheExpires ==
    /\ \E key \in DOMAIN cache :
          /\ cache[key].fresh
          /\ cache' = [cache EXCEPT ![key].fresh = FALSE]
    /\ obs' = [Quiet(obs) EXCEPT !.event = "expired"]
    /\ UNCHANGED <<meta, logs, env, pc, phase, sync, scan, fetch, policy>>

Next ==
    \/ Start
    \/ FetchRespond
    \/ PaceDone
    \/ BackoffDone
    \/ ShrinkSleepDone
    \/ CkptSleepDone
    \/ WatchSleepDone
    \/ Crash
    \/ QueryStore
    \/ CacheExpires

Spec == Init /\ [][Next]_vars

(***************************************************************************)
(* The daemon: node scripts/indexer.mjs --watch against a flaky upstream   *)
(* and disk, with the query server reading.  The timer of                  *)
(* sleep(WATCH_INTERVAL) fires.                                            *)
(***************************************************************************)
DaemonRun ==
    [threshold |-> 0, heads |-> {57}, chain |-> {LogB}, faults |-> TRUE,
     readers |-> {Request("GET", "/api/events", "Deposit", NoParam)},
     envs |-> {Env(0, 50, 10, 5, {"--watch"})}]

InitDaemon ==
    /\ policy = DaemonRun
    /\ env \in policy.envs
    /\ meta = <<>>
    /\ logs = {}
    /\ pc = "down"
    /\ phase = "none"
    /\ sync = NoSync
    /\ scan = NoScan
    /\ fetch = NoFetch
    /\ cache = <<>>
    /\ obs = NoObs

SpecDaemon == InitDaemon /\ [][Next]_vars /\ WF_vars(WatchSleepDone)

(***************************************************************************)
(* One-shot runs under an upstream that answers small windows in the end   *)
(***************************************************************************)
\* A flaky upstream and disk, one head, one-shot runs.
ScanRun ==
    [threshold |-> 0, heads |-> {57}, chain |-> {LogB}, faults |-> TRUE,
     readers |-> {}, envs |-> {Env(0, 50, 10, 5, {"--once"})}]

InitScan ==
    /\ policy \in {ScanRun, ThresholdRun(20)}
    /\ env \in policy.envs
    /\ meta = <<>>
    /\ logs = {}
    /\ pc = "down"
    /\ phase = "none"
    /\ sync = NoSync
    /\ scan = NoScan
    /\ fetch = NoFetch
    /\ cache = <<>>
    /\ obs = NoObs

NextScan ==
    \/ Start
    \/ FetchRespond
    \/ PaceDone
    \/ BackoffDone
    \/ ShrinkSleepDone
    \/ CkptSleepDone
    \/ Crash

\* a request for at most MIN_CHUNK blocks is in flight
SmallWindowAsked ==
    pc = "fetch" /\ fetch.kind = "logs" /\ WindowSize(fetch) <= MIN_CHUNK

\* the upstream has answered a request for at most MIN_CHUNK blocks, and the
\* rows are stored
SmallWindowAnswered == obs.okSize > 0 /\ obs.okSize <= MIN_CHUNK

\* Timers fire, every request gets its response (every step of FetchRespond
\* leaves pc = "fetch"), and a request for at most MIN_CHUNK blocks that is
\* sent again and again is answered in the end.
SpecScan ==
    /\ InitScan
    /\ [][NextScan]_vars
    /\ WF_vars(PaceDone)
    /\ WF_vars(BackoffDone)
    /\ WF_vars(ShrinkSleepDone)
    /\ []<>(pc # "fetch")
    /\ ([]<>SmallWindowAsked => []<>SmallWindowAnswered)

(***************************************************************************)
(* decodeLog on its own, on any topics list and payload                    *)
(***************************************************************************)
\* Longest topics list decoded
MaxTopics == 4

TopicLists == UNION {[1..k -> {"0xdeposit", "0xunknown"}] : k \in 0..MaxTopics}
Payloads == {"0x", "0x01", "0x02", "0xzz"}

InitDecode ==
    /\ policy = [threshold |-> 0, heads |-> {}, chain |-> {}, faults |-> FALSE,
                 readers |-> {}, envs |-> {Env(0, 50, 10, 5, {"--once"})}]
    /\ env \in policy.envs
    /\ meta = <<>>
    /\ logs = {}
    /\ pc = "decode"
    /\ phase = "none"
    /\ sync = NoSync
    /\ scan = NoScan
    /\ fetch = NoFetch
    /\ cache = <<>>
    /\ obs = NoObs

\* indexRange: const decoded = decodeLog({ topics, data })
DecodeOne ==
    /\ pc = "decode"
    /\ \E topics \in TopicLists : \E data \in Payloads :
          obs' = [obs EXCEPT !.document =
                     <<[topics |-> topics, data |-> data,
                        decoded |-> decodeLog(topics, data)]>>]
    /\ UNCHANGED <<meta, logs, env, pc, phase, sync, scan, fetch, policy, cache>>

NextDecode == DecodeOne

SpecDecode == InitDecode /\ [][NextDecode]_vars

(***************************************************************************)
(* indexRange on its own: one log at a time, its numbers in either form    *)
(***************************************************************************)
\* blockNumber, logIndex, transactionIndex and timeStamp as "0x.." strings and
\* as decimal values
IngestBlocks == {Hex(55), Dec(55)}
IngestIndexes == {Hex(0), Dec(0), Hex(10), Dec(10)}
IngestTxIndexes == {Hex(0), Dec(0), Hex(2)}
IngestStamps == {Hex(7), Dec(7)}

\* topics and data the ABI decodes, topics it has no event for, no topics, and
\* data the arguments of the event cannot be read from
IngestTopics == {<<"0xdeposit">>, <<"0xunknown">>, <<>>}
IngestPayloads == {"0x01", "0xzz"}

\* One log in every encoding of its numbers, and one in every shape of its
\* topics and data
IngestLogs ==
    {RawLog("0xa", li, bn, ti, ts, <<"0xdeposit">>, "0x01") :
        li \in IngestIndexes, bn \in IngestBlocks, ti \in IngestTxIndexes,
        ts \in IngestStamps}
    \cup {RawLog("0xa", Hex(0), Hex(55), Hex(2), Hex(7), topics, data) :
             topics \in IngestTopics, data \in IngestPayloads}

InitIngest ==
    /\ policy = [threshold |-> 0, heads |-> {}, chain |-> {}, faults |-> FALSE,
                 readers |-> {}, envs |-> {Env(0, 50, 10, 5, {"--once"})}]
    /\ env \in policy.envs
    /\ meta = <<>>
    /\ logs = {}
    /\ pc = "ingest"
    /\ phase = "none"
    /\ sync = NoSync
    /\ scan = NoScan
    /\ fetch = NoFetch
    /\ cache = <<>>
    /\ obs = NoObs

\* indexRange: the loop over raw and insertMany(rows), for one log
IngestOne ==
    /\ pc = "ingest"
    /\ \E lg \in IngestLogs :
          /\ logs' = insertMany(logs, Rows(<<lg>>))
          /\ obs' = [obs EXCEPT !.received = <<lg>>, !.offered = Rows(<<lg>>)]
    /\ UNCHANGED <<meta, env, pc, phase, sync, scan, fetch, policy, cache>>

NextIngest == IngestOne

SpecIngest == InitIngest /\ [][NextIngest]_vars

(***************************************************************************)
(* The query server on its own, next to an indexer that adds rows          *)
(***************************************************************************)
QueryLog(tx, li, bn, topic, data) ==
    RawLog(tx, Hex(li), Hex(bn), Hex(1), Hex(7), <<topic>>, data)

\* Deposits at (100, 0), (100, 1) and (105, 0), and a log that is none
QueryLogs ==
    {QueryLog("0xa", 0, 100, "0xdeposit", "0x01"),
     QueryLog("0xb", 1, 100, "0xdeposit", "0x01"),
     QueryLog("0xc", 0, 105, "0xdeposit", "0x01"),
     QueryLog("0xc", 1, 105, "0xunknown", "0x")}

QueryRequests ==
    {Request("GET", "/api/deposits", "", Num(2)),
     Request("GET", "/api/deposits", "", Num(0)),
     Request("GET", "/api/events", "Deposit", NoParam),
     Request("GET", "/api/events", "", Num(1)),
     Request("GET", "/api/health", "", NoParam),
     Request("GET", "/", "", NoParam),
     Request("POST", "/api/deposits", "", Num(2)),
     Request("OPTIONS", "/api/events", "Deposit", Num(1))}

InitQuery ==
    /\ policy = [threshold |-> 0, heads |-> {}, chain |-> QueryLogs,
                 faults |-> FALSE, readers |-> QueryRequests,
                 envs |-> {Env(0, 50, 10, 5, {"--once"})}]
    /\ env \in policy.envs
    /\ meta = <<>>
    /\ logs = {}
    /\ pc = "serve"
    /\ phase = "none"
    /\ sync = NoSync
    /\ scan = NoScan
    /\ fetch = NoFetch
    /\ cache = <<>>
    /\ obs = NoObs

\* the indexer stores a log it fetched
IndexerInserts ==
    /\ pc = "serve"
    /\ \E lg \in policy.chain :
          /\ logs' = insertMany(logs, Rows(<<lg>>))
          /\ obs' = Quiet(obs)
    /\ UNCHANGED <<meta, env, pc, phase, sync, scan, fetch, policy, cache>>

NextQuery == IndexerInserts \/ QueryStore \/ CacheExpires

SpecQuery == InitQuery /\ [][NextQuery]_vars

(***************************************************************************)
(* The store on its own: insertMany on batches of any rows, in any order   *)
(***************************************************************************)
\* Longest batch handed to insertMany
MaxBatch == 2

StoreLog(tx, li, ts) ==
    RawLog(tx, Hex(li), Hex(20), Hex(1), ts, <<"0xdeposit">>, "0x01")

\* Three keys; two of them come with and without their timeStamp.
StoreLogs ==
    {StoreLog("0xa", 0, Hex(7)), StoreLog("0xa", 0, Absent),
     StoreLog("0xa", 1, Hex(7)),
     StoreLog("0xb", 0, Hex(7)), StoreLog("0xb", 0, Absent)}

Batches == UNION {[1..k -> StoreLogs] : k \in 1..MaxBatch}

InitStore ==
    /\ policy = [threshold |-> 0, heads |-> {}, chain |-> StoreLogs,
                 faults |-> FALSE, readers |-> {},
                 envs |-> {Env(0, 50, 10, 5, {"--once"})}]
    /\ env \in policy.envs
    /\ meta = <<>>
    /\ logs = {}
    /\ pc = "store"
    /\ phase = "none"
    /\ sync = NoSync
    /\ scan = NoScan
    /\ fetch = NoFetch
    /\ cache = <<>>
    /\ obs = NoObs

\* indexRange: insertMany(rows)
InsertBatch ==
    /\ pc = "store"
    /\ \E raw \in Batches :
          /\ logs' = insertMany(logs, Rows(raw))
          /\ obs' = [obs EXCEPT !.offered = Rows(raw)]
    /\ UNCHANGED <<meta, env, pc, phase, sync, scan, fetch, policy, cache>>

NextStore == InsertBatch

SpecStore == InitStore /\ [][NextStore]_vars

(***************************************************************************)
(* Properties                                                              *)
(***************************************************************************)
HasCheckpoint == "last_block" \in DOMAIN meta
Checkpoint == meta["last_block"]
InLogsFetch == pc \in {"pace", "fetch", "backoff"} /\ fetch.kind = "logs"

\* C1: the persisted checkpoint (last_block) never decreases, whatever the
\* passes, failures, restarts, heads and overlap/window sizes.
C1_CheckpointNeverDecreases ==
    [][HasCheckpoint => meta'["last_block"] >= meta["last_block"]]_vars

C3_NoGapBelowCheckpoint ==
    HasCheckpoint =>
        \A lg \in policy.chain :
            (START_BLOCK <= BlockOf(lg) /\ BlockOf(lg) < Checkpoint)
                => RawKey(lg) \in Keys(logs)

\* C4: the logs table holds at most one row for each (tx_hash, log_index).
C4_OneRowPerKey ==
    \A x \in logs : \A y \in logs : KeyOf(x) = KeyOf(y) => x = y

\* a batch that repeated a key was inserted
C4_Witness ==
    /\ \E i \in DOMAIN obs.offered : \E j \in DOMAIN obs.offered :
          i # j /\ KeyOf(obs.offered[i]) = KeyOf(obs.offered[j])
                /\ KeyOf(obs.offered[i]) \in Keys(logs)
    /\ Cardinality(logs) >= 2

\* C5: an insert never changes or removes a stored row, also when the row
\* offered under the same key differs; the key keeps exactly one row.
C5_FirstWriteWins ==
    [][\A x \in logs :
          /\ x \in logs'
          /\ Cardinality({y \in logs' : KeyOf(y) = KeyOf(x)}) = 1]_vars

\* a row was offered whose key is stored with other attributes
C5_Witness ==
    \E i \in DOMAIN obs.offered : \E x \in logs :
        KeyOf(obs.offered[i]) = KeyOf(x) /\ obs.offered[i] # x

\* C6: a failed window leaves the cursor where it is, the retry starts at the
\* same fromBlock, and the cursor moves only past a window that completed.
C6_FailureKeepsCursor ==
    [][/\ (pc = "fetch" /\ fetch.kind = "logs" /\ pc' = "shrink_sleep")
            => scan'.start = scan.start
       /\ (pc = "shrink_sleep" /\ pc' = "pace")
            => (scan'.start = scan.start /\ fetch'.fromBlock = scan.start)
       /\ (pc = "fetch" /\ fetch.kind = "logs"
              /\ pc' \in {"pace", "shrink_sleep", "ckpt_sleep"}
              /\ scan'.start # scan.start)
            => (obs'.event = "window_ok" /\ scan'.start = fetch.toBlock + 1)]_vars

\* the retry of a failed window is being sent
C6_Witness ==
    /\ pc = "pace"
    /\ obs.failStreak >= 2
    /\ scan.start > scan.fromBlock
    /\ fetch.fromBlock = scan.start

C8_StorageFailureAborts ==
    obs.event \in {"insert_failed", "meta_failed"} => pc \in {"down", "watch_sleep"}

\* C9: the scanner goes past a window only on a well-formed answer: a list of
\* logs or an explicit "no records found".
C9_MalformedNeverSuccess ==
    obs.event = "window_ok" => obs.answer \in {"logs", "no_records"}

\* Halvings of a window of a blocks until it is at most t blocks
RECURSIVE Halvings(_, _)
Halvings(a, t) == IF a <= t \/ a <= 1 THEN 0 ELSE 1 + Halvings(a \div 2, t)

\* C10 as stated: for any threshold T, after the halvings that take the
\* maximum window to T the window requested is at most T.
C10_AnyThreshold ==
    (policy.threshold > 0 /\ InLogsFetch
        /\ obs.failStreak >= Halvings(CHUNK_MAX, policy.threshold))
        => WindowSize(fetch) <= policy.threshold

\* C10: for a threshold T of at least the minimum window, after the halvings
\* that take the maximum window to T the window requested is at most T.
C10_WindowReachesThreshold ==
    (policy.threshold >= MIN_CHUNK /\ InLogsFetch
        /\ obs.failStreak >= Halvings(CHUNK_MAX, policy.threshold))
        => WindowSize(fetch) <= policy.threshold

C10_Witness ==
    /\ policy.threshold >= MIN_CHUNK
    /\ pc = "pace"
    /\ obs.failStreak = Halvings(CHUNK_MAX, policy.threshold)
    /\ obs.failStreak >= 2
    /\ WindowSize(fetch) <= policy.threshold

\* The identity and content of a stored row; timeStamp is best-effort upstream
\* and is left out of the comparison.
Content(table) == {[x EXCEPT !.timestamp = -1] : x \in table}

\* The store an uninterrupted, failure-free first pass leaves under head h: one
\* row for every log the chain holds in max(0, START_BLOCK - OVERLAP) .. h.
ReferenceStore(h) ==
    Content({RowOf(lg) : lg \in InWindow(PassFrom(START_BLOCK), h)})

\* C11: when a pass completes, the store is the one an uninterrupted pass
\* leaves for the same upstream logs and head, whatever failures, window
\* sizes, repeated deliveries, crashes and restarts came before (in the runs
\* whose heads all call for the same store).
C11_CompletedPassSameStore ==
    (obs.event = "pass_done"
        /\ \A h1 \in policy.heads : \A h2 \in policy.heads :
               ReferenceStore(h1) = ReferenceStore(h2)) =>
        \A h \in policy.heads : Content(logs) = ReferenceStore(h)

\* C12: scanRange never raises.  A step taken on the response to a log request
\* leaves the scanner only by its return (the checkpoint write follows in
\* syncOnce); a failure of the Log Client (retries exhausted on rate limit or
\* transport failure, upstream error string) puts it in the sleep of its
\* catch block with the window halved and the cursor unmoved, and the next
\* request starts at the same block.
C12_ScanRangeNeverRaises ==
    [][/\ (pc = "fetch" /\ fetch.kind = "logs" /\ obs'.event \notin {"crash", "query", "expired"})
            => /\ pc' \in {"down", "watch_sleep"}
                    => obs'.event \in {"pass_done", "meta_failed"}
               /\ obs'.event \in {"retries_exhausted", "upstream_error"}
                    => /\ pc' = "shrink_sleep"
                       /\ scan' = [scan EXCEPT !.step = Max(MIN_CHUNK, scan.step \div 2)]
                       /\ sync' = sync /\ phase' = phase
                       /\ meta' = meta /\ logs' = logs
       /\ (pc = "shrink_sleep" /\ obs'.event \notin {"crash", "query", "expired"})
            => /\ pc' = "pace"
               /\ fetch'.fromBlock = scan.start
               /\ fetch'.toBlock = Min(scan.start + scan.step - 1, scan.toBlock)]_vars

\* the Log Client gave up after its last retry, a second time in a row for
\* this window, and the scanner is in the sleep of its catch block
C12_Witness ==
    /\ pc = "shrink_sleep"
    /\ obs.event = "retries_exhausted"
    /\ obs.failStreak >= 2
    /\ scan.start > scan.fromBlock

\* C13: the number indexRangeAdaptive returns is the number of rows the logs
\* table gained during the call, also when the range holds rows that were
\* stored before or come twice in a response.
C13_ReturnsInsertedCount ==
    pc = "ckpt_sleep" =>
        scan.totalInserted = Cardinality(logs) - obs.tableAtCall

\* C14: insertMany is all-or-nothing.  In one step the logs table gains either
\* nothing or every new row of the batch offered, and when the insert failed
\* or the process died part-way through the batch the table is as it was; so
\* no state, as seen by a checkpoint write or by a reader, holds a part of a
\* batch.
C14_BatchAllOrNothing ==
    [][/\ (logs' \ logs) \in {{}, insertMany(logs, obs'.offered) \ logs}
       /\ (obs'.event \in {"insert_failed", "crash"}) => logs' = logs]_vars

\* the insert of a batch of two rows with a key that is not stored failed
C14_Witness ==
    /\ obs.event = "insert_failed"
    /\ Len(obs.offered) = 2
    /\ KeyOf(obs.offered[1]) \notin Keys(logs)
    /\ obs.delivered # {}

\* C15: the logs table is append-only.  Over passes, restarts, exports and
\* queries a stored row is never changed and never removed: every row of the
\* table is in the table after the step, as it was.
C15_AppendOnly ==
    [][\A x \in logs : x \in logs']_vars

\* an export wrote out both stored rows and they are still stored, one of
\* them without the timeStamp a later delivery carried
C15_Witness ==
    /\ obs.exported
    /\ Len(obs.document) = 2
    /\ Cardinality(logs) = 2
    /\ \E x \in logs : x.timestamp = -1 /\ x.tx_hash = "0xa"

\* C16: a response whose body carries one of the rate-limit phrases is
\* classified as rate-limited whatever the HTTP status: fetchJson counts a
\* failed attempt and sleeps before the retry, or gives up after the last one.
C16_PhraseMeansRateLimited ==
    obs.phrase =>
        \/ pc = "backoff" /\ fetch.attempt >= 1
        \/ obs.event \in {"retries_exhausted", "head_failed"}

\* C17: one fetchJson call makes a bounded number of attempts.  It counts at
\* most `retries` failed attempts before a retry, every retry follows one more
\* failed attempt of the same request, the attempt after the last retry either
\* returns or raises to the caller and is never retried, and fetchJson raises
\* only then.
C17_BoundedAttempts ==
    [][/\ fetch'.attempt <= retries
       /\ pc' = "backoff" =>
              /\ pc = "fetch"
              /\ fetch.attempt < retries
              /\ fetch' = [fetch EXCEPT !.attempt = fetch.attempt + 1]
       /\ (pc = "fetch" /\ fetch.attempt = retries
              /\ obs'.event \notin {"crash", "query", "expired"}) =>
              /\ pc' \notin {"backoff", "fetch"} \/ fetch'.attempt = 0
              /\ fetch' # fetch
       /\ obs'.event \in {"retries_exhausted", "head_failed"} =>
              /\ pc = "fetch"
              /\ fetch.attempt = retries
              /\ pc' \in {"shrink_sleep", "down", "watch_sleep"}]_vars

\* the head request failed nine times and the daemon's pass was given up
C17_Witness ==
    /\ obs.event = "head_failed"
    /\ pc = "watch_sleep"
    /\ HasCheckpoint

\* C18: an explicit "no records found" answer to a log request is a success
\* with zero logs: the table is left alone, the cursor moves to the block
\* after the window, the count and the window size do not go down, and the
\* scanner neither backs off nor enters its catch block.
C18_NoRecordsIsEmptySuccess ==
    [][(pc = "fetch" /\ fetch.kind = "logs" /\ obs'.answer = "no_records") =>
          /\ obs'.event \in {"window_ok", "meta_failed"}
          /\ logs' = logs
          /\ pc' \notin {"backoff", "shrink_sleep"}
          /\ obs'.failStreak = 0
          /\ pc' \in {"pace", "ckpt_sleep"} =>
                /\ scan'.start = fetch.toBlock + 1
                /\ scan'.step >= scan.step
                /\ scan'.totalInserted = scan.totalInserted]_vars

\* an empty window in the middle of a scan, after a window that held a log
C18_Witness ==
    /\ obs.answer = "no_records"
    /\ obs.event = "window_ok"
    /\ pc = "pace"
    /\ scan.totalInserted > 0
    /\ obs.covered # {}

C20_UpToDatePassIsNoOp ==
    [][(pc = "fetch" /\ fetch.kind = "head" /\ obs'.head >= 0
          /\ Max(0, Checkpoint - OVERLAP) > obs'.head) =>
          /\ obs'.event = "pass_done"
          /\ pc' \in {"down", "watch_sleep"}
          /\ fetch' = NoFetch
          /\ scan' = NoScan
          /\ logs' = logs
          /\ meta' = meta]_vars

\* an up-to-date pass on a store that holds rows
C20_Witness ==
    /\ obs.event = "pass_done"
    /\ obs.head >= 0
    /\ obs.passFrom > obs.head
    /\ logs # {}
    /\ Checkpoint > obs.head + 1

\* C21: a failed head fetch aborts the pass before any log request.  While
\* the head is being fetched the logs table and the checkpoint do not change;
\* when fetchJson gives up after its last retry, or returns an answer whose
\* result is not a "0x..." string, syncOnce ends by an error with no request
\* prepared and the store as it was.
C21_HeadFailureAbortsPass ==
    [][(pc \in {"fetch", "backoff"} /\ fetch.kind = "head") =>
          /\ logs' = logs
          /\ meta' = meta
          /\ (pc = "fetch" /\ pc' # "backoff"
                 /\ (obs'.answer = "invalid" \/ obs'.event = "head_failed")) =>
                 /\ obs'.event \in {"head_failed", "head_invalid"}
                 /\ pc' \in {"down", "watch_sleep"}
                 /\ fetch' = NoFetch
                 /\ scan' = NoScan]_vars

\* the daemon gave a pass up on an invalid head answer, with rows stored
C21_Witness ==
    /\ obs.event = "head_invalid"
    /\ obs.answer = "invalid"
    /\ pc = "watch_sleep"
    /\ logs # {}
    /\ HasCheckpoint

\* C22: in the watch loop no pass ends the process and no error leaves the
\* loop.  A step of the daemon other than its being killed keeps it running;
\* a pass that completed or failed (head fetch, checkpoint write) leaves it
\* asleep for the polling interval; the step out of that sleep starts the next
\* pass; and whenever it sleeps, a next pass does start (unless it is killed).
C22_DaemonNeverStops ==
    /\ [][(phase = "watch" /\ obs'.event # "crash") =>
             /\ pc' # "down"
             /\ phase' = "watch"
             /\ obs'.event \in {"pass_done", "head_failed", "head_invalid", "meta_failed"}
                    => pc' = "watch_sleep"
             /\ (pc = "watch_sleep" /\ obs'.event \notin {"query", "expired"}) =>
                    /\ pc' = "fetch"
                    /\ fetch'.kind = "head"
                    /\ obs'.event = "pass_start"]_vars
    /\ [](pc = "watch_sleep" => <>(obs.event \in {"pass_start", "crash"}))

\* the daemon sleeps after a pass that failed on its checkpoint write
C22_Witness ==
    /\ pc = "watch_sleep"
    /\ obs.event = "meta_failed"
    /\ logs # {}

\* C23: every request to the upstream (log query, head query, every retry) is
\* sent out of a delay: the step that puts a request in flight starts from a
\* sleep (pacing, backoff, or the polling interval).
C23_RequestsArePaced ==
    [][(pc' = "fetch" /\ (pc # "fetch" \/ fetch' # fetch)) =>
          pc \in {"pace", "backoff", "watch_sleep"}]_vars

\* C24: at most one request to the upstream is in flight and at most one pass
\* is running at any time: a request is sent only when the one before has been
\* answered or has failed, and only by a running pass.
C24_OneRequestInFlight ==
    /\ obs.inflight \in {0, 1}
    /\ obs.running \in {0, 1}
    /\ obs.inflight = 1 => (pc = "fetch" /\ obs.running = 1)
    /\ pc = "watch_sleep" => (obs.running = 0 /\ obs.inflight = 0)

\* a retry is in flight in a pass of the daemon that follows an earlier pass
C24_Witness ==
    /\ pc = "fetch"
    /\ phase = "watch"
    /\ fetch.kind = "logs"
    /\ fetch.attempt >= 1
    /\ obs.inflight = 1
    /\ Checkpoint > 0

\* C25: the start-up seeds the checkpoint from the configured start block only
\* when none is stored; with a checkpoint stored it keeps the stored value,
\* whatever start block is configured, and the pass that follows reads it and
\* starts `overlap` blocks below it.
C25_SeedOnlyWhenAbsent ==
    [][/\ (pc = "down" /\ obs'.event \notin {"query", "expired"}) =>
             IF HasCheckpoint THEN meta' = meta
             ELSE meta' = [k \in {"last_block"} |-> EnvOr(env'.START_BLOCK, 0)]
       /\ (pc = "fetch" /\ fetch.kind = "head" /\ pc' = "pace") =>
             /\ sync'.last = Checkpoint
             /\ sync'.from = Max(0, Checkpoint - OVERLAP)
             /\ fetch'.fromBlock = sync'.from]_vars

\* a pass resumes from the stored checkpoint 58 under a start block of 30
C25_Witness ==
    /\ pc = "pace"
    /\ fetch.kind = "logs"
    /\ START_BLOCK = 30
    /\ sync.last = 58
    /\ fetch.fromBlock = 53

\* C26: decodeLog never raises.  For every topics list and payload, a topic0
\* that the ABI does not have, an empty topics list and a payload that does
\* not fit included, it returns a named event of the ABI with its arguments,
\* or the failure result (both null); it names an event only when topic0 is in
\* the ABI and the payload fits.
C26_DecodeIsTotal ==
    (pc = "decode" /\ obs.document # <<>>) =>
        LET in == obs.document[1]
            d == in.decoded
            fits == /\ in.topics # <<>>
                    /\ in.topics[1] \in AbiTopics
                    /\ in.data = AbiPayload(in.topics[1])
        IN  /\ \/ d.eventName \in {AbiName(t) : t \in AbiTopics} /\ d.decodedJson # NULL
               \/ d.eventName = NULL /\ d.decodedJson = NULL
            /\ d.eventName # NULL <=> fits

\* a topic0 of the ABI with a payload that does not fit it
C26_Witness ==
    /\ pc = "decode"
    /\ obs.document # <<>>
    /\ obs.document[1].topics = <<"0xdeposit", "0xunknown">>
    /\ obs.document[1].data = "0xzz"
    /\ obs.document[1].decoded.eventName = NULL

ItemPos(it) == <<it.blockNumber, it.logIndex>>
RowPos(x) == <<x.block_number, x.log_index>>
PosGreater(a, b) == a[1] > b[1] \/ (a[1] = b[1] /\ a[2] > b[2])

\* rows are the n greatest records named name of table, greatest first
LatestOf(rows, table, name, n) ==
    LET matching == {x \in table : x.event_name = name}
        served == {<<rows[i].tx, rows[i].logIndex>> : i \in DOMAIN rows}
    IN  /\ Len(rows) = Min(n, Cardinality(matching))
        /\ \A i \in DOMAIN rows :
              \E x \in matching :
                 /\ KeyOf(x) = <<rows[i].tx, rows[i].logIndex>>
                 /\ RowPos(x) = ItemPos(rows[i])
                 /\ rows[i].event = name
        /\ \A i \in DOMAIN rows : \A j \in DOMAIN rows :
              i < j => PosGreater(ItemPos(rows[i]), ItemPos(rows[j]))
        /\ \A x \in matching : \A i \in DOMAIN rows :
              KeyOf(x) \notin served => PosGreater(ItemPos(rows[i]), RowPos(x))

LatestQuery(req) ==
    /\ req.method = "GET"
    /\ \/ req.pathname = "/api/deposits"
       \/ req.pathname = "/api/events" /\ req.name # ""

QueryName(req) == IF req.pathname = "/api/deposits" THEN "Deposit" ELSE req.name

QueryLimit(req) ==
    IF req.pathname = "/api/deposits" THEN clampInt(req.limit, 18, 1, 200)
    ELSE clampInt(req.limit, 100, 1, 500)

\* C28 as stated: a latest query with limit n returns exactly min(n, number of
\* matching records) records of the store, sorted descending by (blockNumber,
\* logIndex), and they are the greatest matching records.
C28_LatestQueryExact ==
    (obs.event = "query" /\ LatestQuery(obs.request) /\ obs.request.limit.t = "num") =>
        LatestOf(obs.document, logs, QueryName(obs.request), obs.request.limit.n)

\* C28, amended: with n clamped to 1..200 (1..500 by name; 18 and 100 when no
\* number is given), a latest query returns the min(n, matching) greatest
\* matching records, greatest first, of the store as it was when the answer
\* was computed: of the store as it is, or the answer kept in the cache for
\* the same parameters, which was computed on an earlier store.
C28_LatestQueryOfComputedStore ==
    [][(obs'.event = "query" /\ LatestQuery(obs'.request)) =>
          LET req == obs'.request
              key == CacheKey(req.pathname, QueryName(req), QueryLimit(req))
          IN  /\ obs'.code = 200
              /\ IF obs'.hit
                 THEN key \in DOMAIN cache /\ obs'.document = cache[key].value
                      /\ cache' = cache
                 ELSE LatestOf(obs'.document, logs, QueryName(req), QueryLimit(req))
                      /\ key \in DOMAIN cache' /\ cache'[key].value = obs'.document
              /\ \A k \in DOMAIN cache' :
                    \E T \in SUBSET logs' :
                       LatestOf(cache'[k].value, T, k.name, k.limit)]_vars

\* deposits at (100,0), (100,1), (105,0) and n = 2 give [(105,0), (100,1)]
C28_Witness ==
    /\ obs.event = "query"
    /\ obs.request = Request("GET", "/api/deposits", "", Num(2))
    /\ ~obs.hit
    /\ {RowPos(x) : x \in {y \in logs : y.event_name = "Deposit"}}
          = {<<100, 0>>, <<100, 1>>, <<105, 0>>}
    /\ Len(obs.document) = 2
    /\ ItemPos(obs.document[1]) = <<105, 0>>
    /\ ItemPos(obs.document[2]) = <<100, 1>>

\* C29: the export and query surfaces are read-only.  A run in export mode,
\* also on a store that has no checkpoint yet, and a request to the query
\* server, whatever its method and path, leave the log table and the
\* checkpoint as they were.
C29_ReadSurfacesWriteNothing ==
    [][(\/ obs'.event = "query"
        \/ pc = "down" /\ obs'.exported /\ env'.args = {"--export-json"}) =>
          /\ logs' = logs
          /\ meta' = meta]_vars

\* C30: the run modes are mutually exclusive.  Whatever the flags, a process
\* run executes at most one of the one-shot sync, the daemon sync and the
\* export: no export is written by the run whose one-shot pass has just
\* completed, and no daemon loop is entered by a run that was given --once.
C30_OneModePerRun ==
    /\ obs.exported => obs.event # "pass_done"
    /\ phase = "watch" => ~Once(env)

\* C31: while the entry kept for an endpoint and its query parameters is
\* younger than the cache lifetime, a request with them is answered with the
\* value kept, and the store is not queried; once the entry is that old (or
\* there is none) the request queries the store and the answer is kept anew.
\* No answer served is older than the cache lifetime.
C31_CacheLifetime ==
    [][(obs'.event = "query" /\ LatestQuery(obs'.request)) =>
          LET req == obs'.request
              key == CacheKey(req.pathname, QueryName(req), QueryLimit(req))
          IN  IF key \in DOMAIN cache /\ cache[key].fresh
              THEN /\ obs'.hit
                   /\ obs'.document = cache[key].value
                   /\ cache' = cache
              ELSE /\ ~obs'.hit
                   /\ LatestOf(obs'.document, logs, QueryName(req), QueryLimit(req))
                   /\ key \in DOMAIN cache'
                   /\ cache'[key] = [value |-> obs'.document, fresh |-> TRUE]
                   /\ \A k \in DOMAIN cache : k # key => cache'[k] = cache[k]]_vars

\* an answer from the cache that the store no longer gives, and an entry of
\* the cache that has expired
C31_Witness ==
    /\ obs.event = "query"
    /\ obs.hit
    /\ obs.document = <<>>
    /\ \E x \in logs : x.event_name = "Deposit"
    /\ \E k \in DOMAIN cache : ~cache[k].fresh

C33_WindowAtMostMax ==
    pc \in {"pace", "fetch", "backoff", "shrink_sleep"} /\ scan # NoScan
        => scan.step <= CHUNK_MAX

PassHead == IF pc = "fetch" /\ fetch.kind = "head" THEN obs'.head ELSE sync.head

\* C35 as stated: after each outer window [s, e] of a pass completes the
\* checkpoint is e + 1; when a pass completes without error the checkpoint is
\* head + 1 for the head it fetched; a pass never sets the checkpoint above
\* head + 1.
C35_CheckpointIsHeadPlusOne ==
    [][/\ pc' = "ckpt_sleep" =>
             /\ Checkpoint' = sync'.end + 1
             /\ Checkpoint' <= sync'.head + 1
       /\ obs'.event = "pass_done" => Checkpoint' = PassHead + 1]_vars

\* C35, amended: after each outer window [s, e] of a pass completes the
\* checkpoint is e + 1; when a pass that found blocks to scan (from <= head)
\* completes without error the checkpoint is head + 1 for the head it fetched,
\* and a pass that found none (from > head) leaves the checkpoint as it was;
\* a pass never sets the checkpoint above head + 1.
C35_CheckpointFollowsWindows ==
    [][/\ pc' = "ckpt_sleep" =>
             /\ Checkpoint' = sync'.end + 1
             /\ Checkpoint' <= sync'.head + 1
       /\ (obs'.event = "pass_done" /\ pc = "ckpt_sleep") =>
             /\ meta' = meta
             /\ Checkpoint' = sync.head + 1
             /\ sync.from <= sync.head
       /\ (obs'.event = "pass_done" /\ pc = "fetch") =>
             /\ fetch.kind = "head"
             /\ meta' = meta
             /\ Max(0, Checkpoint - OVERLAP) > obs'.head
       /\ (pc \notin {"down"} /\ meta' # meta) => pc' = "ckpt_sleep"]_vars

\* a pass of two outer windows has completed: head 120, checkpoint 121
C35_Witness ==
    /\ obs.event = "pass_done"
    /\ obs.wrote
    /\ policy.heads = {120}
    /\ Checkpoint = 121
    /\ obs.passCovered = 45..120

\* C36: a pass that finds the checkpoint at head + 1, where a completed pass
\* to the same head has left it, and an upstream that holds the same logs,
\* leaves the log table and the checkpoint as that pass left them: no step of
\* it adds a row, and it ends with the checkpoint at head + 1.
C36_SecondPassChangesNothing ==
    [][/\ (pc \in {"pace", "fetch", "backoff", "shrink_sleep", "ckpt_sleep"}
            /\ sync # NoSync /\ sync.last = sync.head + 1
            /\ obs'.event \notin {"crash", "query", "expired"}) =>
             /\ logs' = logs
             /\ obs'.event = "pass_done" => Checkpoint' = sync.last
       /\ (pc = "fetch" /\ fetch.kind = "head" /\ obs'.head >= 0
            /\ HasCheckpoint /\ Checkpoint = obs'.head + 1) =>
             /\ logs' = logs
             /\ obs'.event = "pass_done" => meta' = meta]_vars

\* C37: whenever a successful window leaves blocks of the range to scan and
\* the window is below the configured maximum, the next window is strictly
\* larger: min(max, floor(window * 1.35)).
C37_SuccessGrowsWindow ==
    [][(pc = "fetch" /\ fetch.kind = "logs" /\ pc' = "pace"
          /\ scan.step < CHUNK_MAX) =>
          /\ obs'.event = "window_ok"
          /\ scan'.start <= scan'.toBlock
          /\ scan'.step = Min(CHUNK_MAX, (scan.step * 135) \div 100)
          /\ scan'.step > scan.step]_vars

\* a window of 12 blocks succeeded and the next one is 16
C37_Witness ==
    /\ pc = "pace"
    /\ scan.step = 16
    /\ fetch.fromBlock = scan.start
    /\ scan.start - 12 >= scan.fromBlock
    /\ WindowSize(fetch) = 16

\* C38: after every failed window request the scanner sleeps before it sends
\* the retry, and every sleep taken with the shrunk window at the configured
\* minimum is longer than every sleep taken with it above the minimum; no
\* failure is followed at once by another request.
C38_FailureCoolsDown ==
    [][/\ (obs'.event \in {"retries_exhausted", "upstream_error", "insert_failed"}) =>
             /\ pc' = "shrink_sleep"
             /\ fetch' = NoFetch
             /\ obs'.cooldown >= 1000
             /\ scan'.step <= MIN_CHUNK => obs'.cooldown >= 3500
             /\ scan'.step > MIN_CHUNK => obs'.cooldown < 1800
       /\ (pc = "shrink_sleep" /\ obs'.event \notin {"crash", "query", "expired"}) =>
             /\ pc' = "pace"
             /\ fetch'.fromBlock = scan.start]_vars

\* a failure that left the window above the minimum, with the longest sleep
\* such a failure can have
C38_Witness ==
    /\ pc = "shrink_sleep"
    /\ obs.event = "retries_exhausted"
    /\ scan.step = 25
    /\ MIN_CHUNK = 10
    /\ obs.cooldown = 1799

\* C39: on ingest the block number, log index, transaction index and time
\* stamp of a log are stored as the integers they denote, whether they come as
\* a 0x-prefixed string or as a decimal value, 0 included, so the row and its
\* key (tx_hash, log_index) do not depend on the encoding.
C39_StoredAsDenoted ==
    pc = "ingest" =>
       \A i \in 1..Len(obs.received) :
          LET lg == obs.received[i]
              r == obs.offered[i]
          IN  /\ r.block_number = lg.blockNumber.val
              /\ r.log_index = lg.logIndex.val
              /\ r.tx_index = lg.transactionIndex.val
              /\ r.timestamp = lg.timeStamp.val
              /\ KeyOf(r) = <<lg.transactionHash, lg.logIndex.val>>

\* C40: in every stored row event_name is NULL exactly when decoded_json is
\* NULL: no row names an event without its arguments, and none has arguments
\* without a name.
C40_NameAndArgsTogether ==
    \A r \in logs : (r.event_name = NULL) <=> (r.decoded_json = NULL)

\* a Deposit whose data cannot be decoded is stored next to a decoded one
C40_Witness ==
    /\ pc = "ingest"
    /\ \E r \in logs : /\ r.topic0 = "0xdeposit" /\ r.data = "0xzz"
                        /\ r.event_name = NULL
    /\ \E r \in logs : r.event_name = "Deposit" /\ r.decoded_json # NULL


=============================================================================
